---- MODULE Spec2Model ----
(***************************************************************************)
(* A model of genealogy-rs (src/src/lib.rs): the three mapfile parsers     *)
(* (GNU ld, LLVM lld, MSVC link), the ELF and PE reconcilers and the       *)
(* construction of the interval index in Genealogy::new.                   *)
(*                                                                         *)
(* Text is modelled line by line.  A line is a record whose field t says   *)
(* which of the program's regular expressions the line matches and whose   *)
(* other fields are the captures of that expression, still as text: a hex  *)
(* field is the sequence of its characters (0..15 a hex digit, NonHex any  *)
(* other alphanumeric character), so that u64::from_str_radix is a         *)
(* conversion that can fail.  Names, file names and origins are sequences  *)
(* of one-character strings.                                               *)
(*                                                                         *)
(* u64 is scaled down to WordHexDigits hex digits (16 in the program); the *)
(* fixed-width MSVC fields are scaled with it.  Rust's + and - on u64      *)
(* panic on overflow when the build has overflow checks (debug) and wrap   *)
(* when it has not (release): overflow_checks is chosen in Init.           *)
(***************************************************************************)
EXTENDS Integers, Sequences, FiniteSets, TLC

VARIABLES
    mapfile,            \* the mapfile text, a sequence of lines
    binary,             \* the binary as goblin's Object::parse sees it
    overflow_checks,    \* TRUE: arithmetic overflow panics; FALSE: it wraps
    pc,                 \* the position in the running function
    cursor,             \* the line (or match, or section) the loop is at
    st,                 \* the running parser's local variables
    sections,           \* the parsed sections handed from parser to reconciler
    outcome,            \* "running", "ok", "WrongMapfileFormat", "UnsupportedBinaryFormat", "panic"
    intervals           \* the elements handed to IntervalTree::from_iter

vars == <<mapfile, binary, overflow_checks, pc, cursor, st, sections, outcome, intervals>>

----------------------------------------------------------------------------
(* Bounds *)

\* hex digits in a machine word (u64 has 16)
WordHexDigits == 4
\* static-symbol rows in an MSVC mapfile
MaxRows == 4

----------------------------------------------------------------------------
(* Values *)

None == <<>>
Some(x) == <<x>>
IsSome(o) == o # <<>>
Unwrap(o) == o[1]

Modulus == 16 ^ WordHexDigits
U64Max == Modulus - 1

\* a character [g-zG-Z]: alphanumeric, not a hex digit
NonHex == 16

\* Rust's a - b on u64: ok is FALSE when the subtraction underflows
SubU64(a, b) == [ok |-> a >= b, val |-> (a - b + Modulus) % Modulus]

\* Rust's a + b on u64: ok is FALSE when the addition overflows
AddU64(a, b) == [ok |-> a + b <= U64Max, val |-> (a + b) % Modulus]

\* u64::from_str_radix(s, 16): Some(value), or None for an empty string, a
\* character that is no hex digit, or a value that does not fit
RECURSIVE ParseHexFrom(_, _, _)
ParseHexFrom(s, i, acc) ==
    IF i > Len(s) THEN Some(acc)
    ELSE IF s[i] > 15 THEN None
    ELSE IF acc * 16 + s[i] > U64Max THEN None
    ELSE ParseHexFrom(s, i + 1, acc * 16 + s[i])

from_str_radix(s) == IF Len(s) = 0 THEN None ELSE ParseHexFrom(s, 1, 0)

\* a hex field of the given value, two characters wide
Hex2(n) == <<n \div 16, n % 16>>

NewSection(name, vaddr, size) ==
    [name |-> name, start_vaddr |-> vaddr, start_file_offset |-> None,
     size |-> size, subsections |-> <<>>]

NewSubSection(name, vaddr, size, filename) ==
    [name |-> name, start_vaddr |-> vaddr, start_file_offset |-> None,
     size |-> size, filename |-> filename]

\* sections[i].subsections.push(sub)
PushSub(secs, i, sub) ==
    [secs EXCEPT ![i].subsections = Append(@, sub)]

----------------------------------------------------------------------------
(* Lines of an MSVC mapfile *)

PreferredLine == [t |-> "preferred"]
StaticLine == [t |-> "static"]
BlankLine == [t |-> "blank"]
JunkLine == [t |-> "junk"]

\* a line the static-symbol row regex matches
MsvcRow(sec, off, origin) ==
    [t |-> "mrow", section |-> sec, section_offset |-> off, origin |-> origin]

MsvcRowLines ==
    { MsvcRow(<<s>>, Hex2(o), <<f>>) :
        s \in {0, 1}, o \in {16, 32, 48, 64}, f \in {"a", "b"} }
    \cup { MsvcRow(<<2>>, Hex2(16), <<"a">>),
           MsvcRow(<<1>>, Hex2(17), <<"a">>),
           MsvcRow(<<1>>, Hex2(32), <<"a", ":", "l">>),
           MsvcRow(<<NonHex>>, Hex2(16), <<"a">>),
           JunkLine }

RECURSIVE SeqsUpTo(_, _)
SeqsUpTo(S, n) ==
    IF n = 0 THEN { <<>> }
    ELSE LET shorter == SeqsUpTo(S, n - 1)
         IN  shorter \cup { Append(q, x) : q \in { r \in shorter : Len(r) = n - 1 }, x \in S }

MsvcMapfiles ==
    { <<PreferredLine>> \o mid \o rows :
        mid \in { <<StaticLine, BlankLine>> },
        rows \in SeqsUpTo(MsvcRowLines, MaxRows) }
    \cup { <<PreferredLine>> \o rows : rows \in SeqsUpTo(MsvcRowLines, 1) }
    \cup { <<PreferredLine, StaticLine>> \o rows : rows \in SeqsUpTo(MsvcRowLines, 2) }

----------------------------------------------------------------------------
(* extract_msvc_mapfile *)

\* mapfile.find(" Static symbols"): the index of the first such line, or None
RECURSIVE FindStaticFrom(_, _)
FindStaticFrom(text, i) ==
    IF i > Len(text) THEN None
    ELSE IF text[i].t = "static" THEN Some(i)
    ELSE FindStaticFrom(text, i + 1)

FindStatic(text) == FindStaticFrom(text, 1)

\* the locals of extract_msvc_mapfile before the loop
MsvcLocals ==
    [res |-> <<>>, current_filename |-> None, current_start_offset |-> 0,
     current_section_nb |-> 0, prev_section_offset |-> 0]

\* while res.len() <= section_nb { res.push(empty Section) }; Section i of
\* the vector is res[i + 1] here
RECURSIVE GrowTo(_, _)
GrowTo(res, section_nb) ==
    IF Len(res) <= section_nb
    THEN GrowTo(Append(res, NewSection(<<>>, 0, 0)), section_nb)
    ELSE res

\* size: prev_section_offset - current_start_offset + 1
RunSize(prev, start) ==
    LET d == SubU64(prev, start)
        s == AddU64(d.val, 1)
    IN  [ok |-> d.ok /\ s.ok, val |-> s.val]

\* res[current_section_nb].subsections.push(SubSection {..}) for the run
\* that the locals describe
PushRun(m) ==
    PushSub(m.res, m.current_section_nb + 1,
            NewSubSection(<<>>, m.current_start_offset,
                          RunSize(m.prev_section_offset, m.current_start_offset).val,
                          Unwrap(m.current_filename)))

\* capture["origin"].split(':').next(): the origin up to its first colon
RECURSIVE BeforeColon(_, _)
BeforeColon(origin, i) ==
    IF i > Len(origin) \/ origin[i] = ":" THEN SubSeq(origin, 1, i - 1)
    ELSE BeforeColon(origin, i + 1)

OriginFile(origin) == BeforeColon(origin, 1)

\* the first arm of the loop body: no run is open yet
OpenFirstRun(m, filename, section_nb, section_offset) ==
    [m EXCEPT !.current_filename = Some(filename),
              !.current_start_offset = section_offset]

\* one iteration of the loop on a line the row regex matches.
\* Returns [tag, m]: tag "next" (go on), "err" (WrongMapfileFormat), "panic".
MsvcRowStep(m, line, chk) ==
    LET nb  == from_str_radix(line.section)
        off == from_str_radix(line.section_offset)
    IN  IF ~IsSome(nb) \/ ~IsSome(off) THEN [tag |-> "err", m |-> m]
        ELSE
        LET section_nb == Unwrap(nb)
            section_offset == Unwrap(off)
            grown == [m EXCEPT !.res = GrowTo(m.res, section_nb)]
            filename == OriginFile(line.origin)
        IN  IF ~IsSome(grown.current_filename)
            THEN [tag |-> "next",
                  m |-> [OpenFirstRun(grown, filename, section_nb, section_offset)
                            EXCEPT !.prev_section_offset = section_offset]]
            ELSE IF Unwrap(grown.current_filename) # filename
                    \/ grown.current_section_nb # section_nb
            THEN IF chk /\ ~RunSize(grown.prev_section_offset,
                                    grown.current_start_offset).ok
                 THEN [tag |-> "panic", m |-> grown]
                 ELSE [tag |-> "next",
                       m |-> [grown EXCEPT !.res = PushRun(grown),
                                           !.current_filename = Some(filename),
                                           !.current_start_offset = section_offset,
                                           !.current_section_nb = section_nb,
                                           !.prev_section_offset = section_offset]]
            ELSE [tag |-> "next",
                  m |-> [grown EXCEPT !.prev_section_offset = section_offset]]

\* "The last one": the push after the loop
MsvcFlush(m, chk) ==
    IF ~IsSome(m.current_filename) THEN [tag |-> "ok", m |-> m]
    ELSE IF chk /\ ~RunSize(m.prev_section_offset, m.current_start_offset).ok
    THEN [tag |-> "panic", m |-> m]
    ELSE [tag |-> "ok", m |-> [m EXCEPT !.res = PushRun(m)]]

\* the first line of the loop: lines.next() twice after the anchor
MsvcFirstRow(text) == Unwrap(FindStatic(text)) + 2

----------------------------------------------------------------------------
(* The MSVC parser, one loop iteration at a time *)

InitMsvc ==
    /\ mapfile \in MsvcMapfiles
    /\ binary = [kind |-> "PE", table |-> <<>>]
    /\ overflow_checks \in BOOLEAN
    /\ pc = "extract_msvc_mapfile"
    /\ cursor = 0
    /\ st = MsvcLocals
    /\ sections = <<>>
    /\ outcome = "running"
    /\ intervals = <<>>

\* lines 288-302: find the anchor, skip two lines, initialise the locals
extract_msvc_find ==
    /\ pc = "extract_msvc_mapfile"
    /\ IF IsSome(FindStatic(mapfile))
       THEN /\ pc' = "msvc_loop"
            /\ cursor' = MsvcFirstRow(mapfile)
            /\ outcome' = outcome
       ELSE /\ pc' = "done"
            /\ cursor' = cursor
            /\ outcome' = "WrongMapfileFormat"
    /\ st' = MsvcLocals
    /\ UNCHANGED <<mapfile, binary, overflow_checks, sections, intervals>>

\* lines 303-349: one iteration on a matching line
extract_msvc_row ==
    /\ pc = "msvc_loop"
    /\ cursor <= Len(mapfile)
    /\ mapfile[cursor].t = "mrow"
    /\ LET r == MsvcRowStep(st, mapfile[cursor], overflow_checks)
       IN  /\ st' = r.m
           /\ IF r.tag = "next"
              THEN /\ pc' = "msvc_loop"
                   /\ cursor' = cursor + 1
                   /\ outcome' = outcome
              ELSE /\ pc' = "done"
                   /\ cursor' = cursor
                   /\ outcome' = IF r.tag = "err" THEN "WrongMapfileFormat" ELSE "panic"
    /\ UNCHANGED <<mapfile, binary, overflow_checks, sections, intervals>>

\* lines 304-306 and 351-364: the loop ends (no more lines, or a line the
\* regex does not match) and the last run is pushed
extract_msvc_flush ==
    /\ pc = "msvc_loop"
    /\ \/ cursor > Len(mapfile)
       \/ /\ cursor <= Len(mapfile)
          /\ mapfile[cursor].t # "mrow"
    /\ LET r == MsvcFlush(st, overflow_checks)
       IN  /\ st' = r.m
           /\ sections' = IF r.tag = "ok" THEN r.m.res ELSE sections
           /\ outcome' = r.tag
    /\ pc' = "done"
    /\ UNCHANGED <<mapfile, binary, overflow_checks, cursor, intervals>>

NextMsvc ==
    \/ extract_msvc_find
    \/ extract_msvc_row
    \/ extract_msvc_flush

SpecMsvc == InitMsvc /\ [][NextMsvc]_vars

----------------------------------------------------------------------------
(* Lines of a GNU ld mapfile *)

\* a line regex_sections matches: ^(\.[^\s]+)\s+0x(hex)[[:blank:]]+0x(hex)
GnuSectionLine(name, vrom, size) ==
    [t |-> "gsec", name |-> name, vrom |-> vrom, size |-> size]

\* a line regex_subsections matches: ^ (\.[^\s]+)\s+0x(hex) 0x(hex) (file)
GnuSubsectionLine(name, vrom, size, file) ==
    [t |-> "gsub", name |-> name, vrom |-> vrom, size |-> size, file |-> file]

\* a hex field too long for a word: 1 followed by WordHexDigits zeros
OverlongHex == [i \in 1..(WordHexDigits + 1) |-> IF i = 1 THEN 1 ELSE 0]

GnuLines ==
    { GnuSectionLine(<<".", "t">>, <<1, 0>>, <<2, 0>>),
      GnuSectionLine(<<".", "d">>, <<4, 0>>, <<0, 1, 0>>),
      GnuSectionLine(<<".", "b">>, OverlongHex, <<0>>),
      GnuSubsectionLine(<<".", "t", ".", "a">>, <<1, 0>>, <<8>>, <<"a">>),
      GnuSubsectionLine(<<".", "t", ".", "b">>, <<1, 8>>, <<1, 0>>, <<"b">>),
      GnuSubsectionLine(<<".", "d", ".", "a">>, <<8>>, <<0>>, <<"a">>),
      GnuSubsectionLine(<<".", "d", ".", "b">>, <<4, 0>>, OverlongHex, <<"b">>),
      JunkLine }

\* the bytes of a line, its line feed included
LineBytes(line) ==
    CASE line.t = "gsec" -> 2 + Len(line.name) + Len(line.vrom) + Len(line.size)
      [] line.t = "gsub" -> 4 + Len(line.name) + Len(line.vrom) + Len(line.size) + Len(line.file)
      [] OTHER -> 1

\* c.get(0).unwrap().start(): the byte offset at which line i starts
RECURSIVE MatchStart(_, _)
MatchStart(text, i) ==
    IF i = 1 THEN 0 ELSE MatchStart(text, i - 1) + LineBytes(text[i - 1])

\* captures_iter: the first line after line i that is of kind t, or 0
RECURSIVE NextMatch(_, _, _)
NextMatch(text, i, t) ==
    IF i >= Len(text) THEN 0
    ELSE IF text[i + 1].t = t THEN i + 1
    ELSE NextMatch(text, i + 1, t)

----------------------------------------------------------------------------
(* extract_gnu_mapfile *)

GnuLocals == [section_offsets |-> <<>>, sections |-> <<>>]

\* lines 145-159: the closure run on one section match, and unzip's push
GnuSectionStep(g, text, j) ==
    LET vrom == from_str_radix(text[j].vrom)
        size == from_str_radix(text[j].size)
    IN  IF ~IsSome(vrom) \/ ~IsSome(size) THEN [tag |-> "panic", g |-> g]
        ELSE [tag |-> "next",
              g |-> [section_offsets |-> Append(g.section_offsets, MatchStart(text, j)),
                     sections |-> Append(g.sections,
                                         NewSection(text[j].name, Unwrap(vrom), Unwrap(size)))]]

\* lines 172-176: the index of the first section whose match starts after
\* ss_offset (counted from 0), or sections.len()
RECURSIVE FindFirstAfter(_, _, _)
FindFirstAfter(section_offsets, ss_offset, i) ==
    IF i >= Len(section_offsets) THEN Len(section_offsets)
    ELSE IF section_offsets[i + 1] > ss_offset THEN i
    ELSE FindFirstAfter(section_offsets, ss_offset, i + 1)

\* ClosestSectionIndex that takes the section after the subsection
ClosestSectionIndex_Following(section_offsets, ss_offset) ==
    LET i == FindFirstAfter(section_offsets, ss_offset, 0)
    IN  IF i < Len(section_offsets) THEN i + 1 ELSE i

ClosestSectionIndex(section_offsets, ss_offset) ==
    FindFirstAfter(section_offsets, ss_offset, 0)

\* lines 162-180: the closure run on one subsection match
GnuSubsectionStep(g, text, j) ==
    LET vrom == from_str_radix(text[j].vrom)
        size == from_str_radix(text[j].size)
    IN  IF ~IsSome(vrom) \/ ~IsSome(size) THEN [tag |-> "panic", g |-> g]
        ELSE LET subsection == NewSubSection(text[j].name, Unwrap(vrom), Unwrap(size),
                                             text[j].file)
                 section_index == ClosestSectionIndex(g.section_offsets, MatchStart(text, j))
             IN  [tag |-> "next",
                  g |-> IF section_index > 0
                        THEN [g EXCEPT !.sections = PushSub(@, section_index, subsection)]
                        ELSE g]

----------------------------------------------------------------------------
(* Lines of an LLVM lld mapfile *)

\* a line header_regex matches; gap is the whitespace between Out and In
BannerLine(gap) == [t |-> "banner", gap |-> gap]

\* a line line_regex matches; spaces is the length of the whitespace run
\* after the align field, name the rest of the line, character by character
LlvmRow(vma, size, spaces, name) ==
    [t |-> "lrow", vma |-> vma, size |-> size, spaces |-> spaces, name |-> name]

LlvmLines ==
    { BannerLine(5),
      BannerLine(1),
      LlvmRow(<<1, 0>>, <<2, 0>>, 1, <<".", "t">>),
      LlvmRow(<<4, 0>>, <<1, 0>>, 1, <<".", "d">>),
      LlvmRow(<<1, 0>>, <<8>>, 9, <<"a", ":", "(", "s", ")">>),
      LlvmRow(<<1, 8>>, <<8>>, 5, <<"b", ":", "(", "s", "+", "0", "x", "4", ")">>),
      LlvmRow(<<1, 0>>, <<0>>, 17, <<"f">>),
      LlvmRow(<<1, 0>>, <<0>>, 9, <<"f">>),
      LlvmRow(OverlongHex, <<0>>, 17, <<"f">>),
      JunkLine }

----------------------------------------------------------------------------
(* extract_llvm_mapfile *)

\* str::find(":("): the index of the first ":" followed by "(", or 0
RECURSIVE FindColonParen(_, _)
FindColonParen(name, i) ==
    IF i >= Len(name) THEN 0
    ELSE IF name[i] = ":" /\ name[i + 1] = "(" THEN i
    ELSE FindColonParen(name, i + 1)

\* str::rfind("+0x"): the index of the last "+0x", or 0
RECURSIVE RFindPlus0x(_, _)
RFindPlus0x(name, i) ==
    IF i < 1 THEN 0
    ELSE IF i + 2 <= Len(name) /\ name[i] = "+" /\ name[i + 1] = "0" /\ name[i + 2] = "x"
    THEN i
    ELSE RFindPlus0x(name, i - 1)

IsHexChar(c) ==
    c \in {"0", "1", "2", "3", "4", "5", "6", "7", "8", "9",
           "a", "b", "c", "d", "e", "f", "A", "B", "C", "D", "E", "F"}

\* lines 206-214: drop a trailing +0xXXX from the subsection name
StripOffsetSuffix(name) ==
    LET plus_pos == RFindPlus0x(name, Len(name))
    IN  IF plus_pos > 0 /\ \A k \in (plus_pos + 3)..Len(name) : IsHexChar(name[k])
        THEN SubSeq(name, 1, plus_pos - 1)
        ELSE name

\* lines 190-226.  Returns [tag, entry]: tag "section", "subsection",
\* "none" (a symbol), or "panic" (an unwrap on None)
capture_to_entry_type(m, out_in_space) ==
    LET vma  == from_str_radix(m.vma)
        size == from_str_radix(m.size)
    IN  IF ~IsSome(vma) \/ ~IsSome(size) THEN [tag |-> "panic"]
        ELSE IF m.spaces = 1
        THEN [tag |-> "section",
              entry |-> NewSection(m.name, Unwrap(vma), Unwrap(size))]
        ELSE IF m.spaces = 1 + 3 + out_in_space
        THEN LET cut == SubSeq(m.name, 1, Len(m.name) - 1)
                 at  == FindColonParen(cut, 1)
             IN  IF at = 0 THEN [tag |-> "panic"]
                 ELSE [tag |-> "subsection",
                       entry |-> NewSubSection(
                                    StripOffsetSuffix(SubSeq(cut, at + 2, Len(cut))),
                                    Unwrap(vma), Unwrap(size),
                                    SubSeq(cut, 1, at - 1))]
        ELSE [tag |-> "none"]

LlvmLocals(out_in_len) ==
    [res |-> <<>>, cur_section |-> None, out_in_len |-> out_in_len]

\* lines 232-247: skip the first line; the next one must be a Section row.
\* Returns [tag, l]: tag "next", "return" (the early return res) or "panic"
LlvmFirstStep(l, text) ==
    IF Len(text) < 2 THEN [tag |-> "return", l |-> l]
    ELSE IF text[2].t # "lrow" THEN [tag |-> "return", l |-> l]
    ELSE LET e == capture_to_entry_type(text[2], l.out_in_len)
         IN  IF e.tag = "panic" THEN [tag |-> "panic", l |-> l]
             ELSE IF e.tag = "section"
             THEN [tag |-> "next", l |-> [l EXCEPT !.cur_section = Some(e.entry)]]
             ELSE [tag |-> "return", l |-> l]

\* lines 249-265: one iteration of the loop, on line j
LlvmLineStep(l, text, j) ==
    IF text[j].t # "lrow" THEN [tag |-> "next", l |-> l]
    ELSE LET e == capture_to_entry_type(text[j], l.out_in_len)
         IN  CASE e.tag = "panic" -> [tag |-> "panic", l |-> l]
               [] e.tag = "section" ->
                    [tag |-> "next",
                     l |-> [l EXCEPT !.res = Append(@, Unwrap(l.cur_section)),
                                     !.cur_section = Some(e.entry)]]
               [] e.tag = "subsection" ->
                    [tag |-> "next",
                     l |-> [l EXCEPT !.cur_section =
                               Some([Unwrap(@) EXCEPT !.subsections = Append(@, e.entry)])]]
               [] OTHER -> [tag |-> "next", l |-> l]

\* lines 267-269: res.push(cur_section); res
LlvmFinish(l) == Append(l.res, Unwrap(l.cur_section))

----------------------------------------------------------------------------
(* extract_mapfile: the dialect of a text *)

\* header_regex.captures(mapfile): the first banner line, or 0
RECURSIVE FindKind(_, _, _)
FindKind(text, t, i) ==
    IF i > Len(text) THEN 0
    ELSE IF text[i].t = t THEN i
    ELSE FindKind(text, t, i + 1)

\* lines 119-128: "LLVM", "MSVC" or "GNU"
Dialect(text) ==
    IF FindKind(text, "banner", 1) > 0 THEN "LLVM"
    ELSE IF FindKind(text, "preferred", 1) > 0 THEN "MSVC"
    ELSE "GNU"

\* header_match["out_in_space"].len()
OutInLen(text) == text[FindKind(text, "banner", 1)].gap

----------------------------------------------------------------------------
(* extract_mapfile on GNU and LLVM texts, one match or line at a time *)

\* lines of a text
MaxLines == 4

GnuMapfiles == SeqsUpTo(GnuLines, MaxLines)
LlvmMapfiles == SeqsUpTo(LlvmLines, MaxLines)

InitParse ==
    /\ mapfile \in GnuMapfiles \cup LlvmMapfiles
    /\ binary = [kind |-> "ELF", table |-> <<>>]
    /\ overflow_checks \in BOOLEAN
    /\ pc = "extract_mapfile"
    /\ cursor = 0
    /\ st = <<>>
    /\ sections = <<>>
    /\ outcome = "running"
    /\ intervals = <<>>

\* lines 113-129: choose the parser
extract_mapfile ==
    /\ pc = "extract_mapfile"
    /\ LET d == Dialect(mapfile)
       IN  /\ pc' = CASE d = "LLVM" -> "llvm_first"
                      [] d = "MSVC" -> "extract_msvc_mapfile"
                      [] OTHER -> "gnu_sections"
           /\ st' = CASE d = "LLVM" -> LlvmLocals(OutInLen(mapfile))
                      [] d = "MSVC" -> MsvcLocals
                      [] OTHER -> GnuLocals
    /\ cursor' = 0
    /\ UNCHANGED <<mapfile, binary, overflow_checks, sections, outcome, intervals>>

\* lines 145-159: the next section match
gnu_section_capture ==
    /\ pc = "gnu_sections"
    /\ NextMatch(mapfile, cursor, "gsec") > 0
    /\ LET j == NextMatch(mapfile, cursor, "gsec")
           r == GnuSectionStep(st, mapfile, j)
       IN  /\ st' = r.g
           /\ cursor' = j
           /\ pc' = IF r.tag = "next" THEN pc ELSE "done"
           /\ outcome' = IF r.tag = "next" THEN outcome ELSE "panic"
    /\ UNCHANGED <<mapfile, binary, overflow_checks, sections, intervals>>

\* line 159: no section match is left
gnu_sections_end ==
    /\ pc = "gnu_sections"
    /\ NextMatch(mapfile, cursor, "gsec") = 0
    /\ pc' = "gnu_subsections"
    /\ cursor' = 0
    /\ UNCHANGED <<mapfile, binary, overflow_checks, st, sections, outcome, intervals>>

\* lines 162-180: the next subsection match
gnu_subsection_capture ==
    /\ pc = "gnu_subsections"
    /\ NextMatch(mapfile, cursor, "gsub") > 0
    /\ LET j == NextMatch(mapfile, cursor, "gsub")
           r == GnuSubsectionStep(st, mapfile, j)
       IN  /\ st' = r.g
           /\ cursor' = j
           /\ pc' = IF r.tag = "next" THEN pc ELSE "done"
           /\ outcome' = IF r.tag = "next" THEN outcome ELSE "panic"
    /\ UNCHANGED <<mapfile, binary, overflow_checks, sections, intervals>>

\* line 182: no subsection match is left; return sections
gnu_return ==
    /\ pc = "gnu_subsections"
    /\ NextMatch(mapfile, cursor, "gsub") = 0
    /\ pc' = "done"
    /\ sections' = st.sections
    /\ outcome' = "ok"
    /\ UNCHANGED <<mapfile, binary, overflow_checks, cursor, st, intervals>>

\* lines 232-247: the header line is skipped, the first row is read
llvm_first ==
    /\ pc = "llvm_first"
    /\ LET r == LlvmFirstStep(st, mapfile)
       IN  /\ st' = r.l
           /\ pc' = IF r.tag = "next" THEN "llvm_loop" ELSE "done"
           /\ cursor' = IF r.tag = "next" THEN 3 ELSE cursor
           /\ outcome' = CASE r.tag = "next" -> outcome
                           [] r.tag = "return" -> "ok"
                           [] OTHER -> "panic"
           /\ sections' = IF r.tag = "return" THEN r.l.res ELSE sections
    /\ UNCHANGED <<mapfile, binary, overflow_checks, intervals>>

\* lines 249-265: one iteration of the loop over the remaining lines
llvm_line ==
    /\ pc = "llvm_loop"
    /\ cursor <= Len(mapfile)
    /\ LET r == LlvmLineStep(st, mapfile, cursor)
       IN  /\ st' = r.l
           /\ pc' = IF r.tag = "next" THEN pc ELSE "done"
           /\ cursor' = IF r.tag = "next" THEN cursor + 1 ELSE cursor
           /\ outcome' = IF r.tag = "next" THEN outcome ELSE "panic"
    /\ UNCHANGED <<mapfile, binary, overflow_checks, sections, intervals>>

\* lines 267-269: the lines are exhausted
llvm_return ==
    /\ pc = "llvm_loop"
    /\ cursor > Len(mapfile)
    /\ pc' = "done"
    /\ sections' = LlvmFinish(st)
    /\ outcome' = "ok"
    /\ UNCHANGED <<mapfile, binary, overflow_checks, cursor, st, intervals>>

NextParse ==
    \/ extract_mapfile
    \/ gnu_section_capture
    \/ gnu_sections_end
    \/ gnu_subsection_capture
    \/ gnu_return
    \/ llvm_first
    \/ llvm_line
    \/ llvm_return

SpecParse == InitParse /\ [][NextParse]_vars

----------------------------------------------------------------------------
(* The parsers run to their return *)

\* extract_msvc_mapfile's loop from line i on, then the last push
RECURSIVE MsvcLoop(_, _, _, _)
MsvcLoop(m, text, i, chk) ==
    IF i > Len(text) \/ text[i].t # "mrow" THEN MsvcFlush(m, chk)
    ELSE LET r == MsvcRowStep(m, text[i], chk)
         IN  IF r.tag = "next" THEN MsvcLoop(r.m, text, i + 1, chk) ELSE r

\* lines 272-365.  [tag, sections]: tag "ok", "err" or "panic"
extract_msvc_mapfile(text, chk) ==
    IF ~IsSome(FindStatic(text)) THEN [tag |-> "err", sections |-> <<>>]
    ELSE LET r == MsvcLoop(MsvcLocals, text, MsvcFirstRow(text), chk)
         IN  [tag |-> r.tag, sections |-> r.m.res]

RECURSIVE GnuSectionsPass(_, _, _)
GnuSectionsPass(g, text, i) ==
    LET j == NextMatch(text, i, "gsec")
    IN  IF j = 0 THEN [tag |-> "next", g |-> g]
        ELSE LET r == GnuSectionStep(g, text, j)
             IN  IF r.tag = "next" THEN GnuSectionsPass(r.g, text, j) ELSE r

RECURSIVE GnuSubsectionsPass(_, _, _)
GnuSubsectionsPass(g, text, i) ==
    LET j == NextMatch(text, i, "gsub")
    IN  IF j = 0 THEN [tag |-> "next", g |-> g]
        ELSE LET r == GnuSubsectionStep(g, text, j)
             IN  IF r.tag = "next" THEN GnuSubsectionsPass(r.g, text, j) ELSE r

\* lines 131-183
extract_gnu_mapfile(text) ==
    LET first == GnuSectionsPass(GnuLocals, text, 0)
    IN  IF first.tag = "panic" THEN [tag |-> "panic", sections |-> <<>>]
        ELSE LET second == GnuSubsectionsPass(first.g, text, 0)
             IN  IF second.tag = "panic" THEN [tag |-> "panic", sections |-> <<>>]
                 ELSE [tag |-> "ok", sections |-> second.g.sections]

RECURSIVE LlvmLoop(_, _, _)
LlvmLoop(l, text, j) ==
    IF j > Len(text) THEN [tag |-> "ok", sections |-> LlvmFinish(l)]
    ELSE LET r == LlvmLineStep(l, text, j)
         IN  IF r.tag = "next" THEN LlvmLoop(r.l, text, j + 1)
             ELSE [tag |-> "panic", sections |-> <<>>]

\* lines 185-270
extract_llvm_mapfile(text, out_in_len) ==
    LET r == LlvmFirstStep(LlvmLocals(out_in_len), text)
    IN  CASE r.tag = "panic" -> [tag |-> "panic", sections |-> <<>>]
          [] r.tag = "return" -> [tag |-> "ok", sections |-> r.l.res]
          [] OTHER -> LlvmLoop(r.l, text, 3)

\* lines 113-129
ExtractMapfile(text, chk) ==
    CASE Dialect(text) = "LLVM" -> extract_llvm_mapfile(text, OutInLen(text))
      [] Dialect(text) = "MSVC" -> extract_msvc_mapfile(text, chk)
      [] OTHER -> extract_gnu_mapfile(text)

----------------------------------------------------------------------------
(* Binaries *)

\* an ELF section header: its name in the string table (None when sh_name
\* points outside the table), sh_offset and sh_size
Shdr(name, sh_offset, sh_size) ==
    [name |-> name, sh_offset |-> sh_offset, sh_size |-> sh_size]

\* a PE section table entry
PeSection(pointer_to_raw_data) == [pointer_to_raw_data |-> pointer_to_raw_data]

Elf(table) == [kind |-> "ELF", table |-> table]
Pe(table) == [kind |-> "PE", table |-> table]

Binaries ==
    { Elf(<<Shdr(Some(<<>>), 0, 0),
            Shdr(Some(<<".", "t">>), 256, 32),
            Shdr(Some(<<".", "d">>), 0, 16)>>),
      Elf(<<Shdr(Some(<<".", "t">>), 256, 32),
            Shdr(Some(<<".", "t">>), 768, 32)>>),
      Elf(<<Shdr(None, 0, 0)>>),
      Pe(<<PeSection(64)>>),
      Pe(<<PeSection(64), PeSection(128)>>),
      [kind |-> "Mach", table |-> <<>>],
      [kind |-> "Unparsable", table |-> <<>>] }

----------------------------------------------------------------------------
(* map_sections_to_elf *)

\* lines 393-402: collect() into the HashMap panics when a header's name is
\* not in the string table
ElfNamesResolve(table) == \A i \in 1..Len(table) : IsSome(table[i].name)

\* elf_section_hm.get(name): a later header of the same name has replaced
\* an earlier one
RECURSIVE ElfLookupFrom(_, _, _)
ElfLookupFrom(table, name, i) ==
    IF i < 1 THEN None
    ELSE IF Unwrap(table[i].name) = name THEN Some(table[i].sh_offset)
    ELSE ElfLookupFrom(table, name, i - 1)

ElfLookup(table, name) == ElfLookupFrom(table, name, Len(table))

\* ElfSubOffset without the subtraction of the section's address
ElfSubOffset_NoRebase(sub_vaddr, sec_vaddr, file_offset) ==
    AddU64(sub_vaddr, file_offset)

\* line 409: ssection.start_vaddr - section.start_vaddr + file_offset
ElfSubOffset(sub_vaddr, sec_vaddr, file_offset) ==
    LET d == SubU64(sub_vaddr, sec_vaddr)
        a == AddU64(d.val, file_offset)
    IN  [ok |-> d.ok /\ a.ok, val |-> a.val]

\* lines 404-412: the closure run on one section
MapSectionToElf(section, table, chk) ==
    LET found == ElfLookup(table, section.name)
    IN  IF ~IsSome(found)
        THEN [tag |-> "next", section |-> [section EXCEPT !.start_file_offset = None]]
        ELSE IF chk /\ \E n \in 1..Len(section.subsections) :
                         ~ElfSubOffset(section.subsections[n].start_vaddr,
                                       section.start_vaddr, Unwrap(found)).ok
        THEN [tag |-> "panic", section |-> section]
        ELSE [tag |-> "next",
              section |->
                [section EXCEPT
                    !.start_file_offset = found,
                    !.subsections =
                        [n \in 1..Len(section.subsections) |->
                            [section.subsections[n] EXCEPT !.start_file_offset =
                                Some(ElfSubOffset(section.subsections[n].start_vaddr,
                                                  section.start_vaddr,
                                                  Unwrap(found)).val)]]]]

----------------------------------------------------------------------------
(* map_msvc_sections_to_pe *)

\* PeSectionFor with pe.sections.get(section_nb) and no sentinel
PeSectionFor_NoSentinel(section_nb, table) ==
    IF section_nb >= Len(table) THEN None ELSE Some(table[section_nb + 1])

\* lines 369-375: the PE section for the section at index section_nb
\* (counted from 0): none for index 0, else pe.sections.get(section_nb - 1)
PeSectionFor(section_nb, table) ==
    IF section_nb = 0 THEN None
    ELSE IF section_nb - 1 >= Len(table) THEN None
    ELSE Some(table[section_nb])

\* lines 368-381: the loop body for the section at index section_nb
MapSectionToPe(section_nb, section, table, chk) ==
    IF ~IsSome(PeSectionFor(section_nb, table))
    THEN [tag |-> "next", section |-> section]
    ELSE LET pointer_offset == Unwrap(PeSectionFor(section_nb, table)).pointer_to_raw_data
         IN  IF chk /\ \E n \in 1..Len(section.subsections) :
                          ~AddU64(pointer_offset, section.subsections[n].start_vaddr).ok
             THEN [tag |-> "panic", section |-> section]
             ELSE [tag |-> "next",
                   section |->
                     [section EXCEPT !.subsections =
                        [n \in 1..Len(section.subsections) |->
                            [section.subsections[n] EXCEPT !.start_file_offset =
                                Some(AddU64(pointer_offset,
                                            section.subsections[n].start_vaddr).val)]]]]

----------------------------------------------------------------------------
(* Genealogy::new *)

\* line 90: sections.into_iter().flat_map(|s| s.subsections.into_iter())
RECURSIVE FlatSubsections(_, _)
FlatSubsections(secs, i) ==
    IF i > Len(secs) THEN <<>>
    ELSE secs[i].subsections \o FlatSubsections(secs, i + 1)

\* IndexEntry that also drops a subsection of size 0
IndexEntry_SkipsEmpty(sub_section) ==
    IF IsSome(sub_section.start_file_offset) /\ sub_section.size > 0
    THEN Some([start |-> Unwrap(sub_section.start_file_offset),
               end |-> AddU64(Unwrap(sub_section.start_file_offset), sub_section.size).val,
               value |-> sub_section.filename])
    ELSE None

\* lines 91-98: the filter_map closure on one subsection: None, or the
\* element (range, value)
IndexEntry(sub_section) ==
    IF IsSome(sub_section.start_file_offset)
    THEN Some([start |-> Unwrap(sub_section.start_file_offset),
               end |-> AddU64(Unwrap(sub_section.start_file_offset), sub_section.size).val,
               value |-> sub_section.filename])
    ELSE None

IndexEntryOverflows(sub_section) ==
    /\ IsSome(sub_section.start_file_offset)
    /\ ~AddU64(Unwrap(sub_section.start_file_offset), sub_section.size).ok

RECURSIVE CollectEntries(_, _)
CollectEntries(subs, i) ==
    IF i > Len(subs) THEN <<>>
    ELSE IndexEntry(subs[i]) \o CollectEntries(subs, i + 1)

\* lines 76-84: which arm of the match on Object::parse(binary) is taken
ObjectArm(kind) ==
    CASE kind = "ELF" -> "map_sections_to_elf"
      [] kind = "PE" -> "map_msvc_sections_to_pe"
      [] OTHER -> "UnsupportedBinaryFormat"

\* lines of a text handed to Genealogy::new
MaxBuildLines == 3

BuildGnuLines ==
    { GnuSectionLine(<<".", "t">>, <<1, 0>>, <<2, 0>>),
      GnuSectionLine(<<".", "d">>, <<4, 0>>, <<1, 0>>),
      GnuSubsectionLine(<<".", "t", ".", "a">>, <<1, 0>>, <<8>>, <<"a">>),
      GnuSubsectionLine(<<".", "t", ".", "b">>, <<2, 8>>, <<1, 0>>, <<"b">>),
      GnuSubsectionLine(<<".", "d", ".", "a">>, <<8>>, <<0>>, <<"a">>),
      GnuSubsectionLine(<<".", "d", ".", "b">>, <<4, 0>>, <<0>>, <<"b">>) }

BuildLlvmLines ==
    { BannerLine(5),
      LlvmRow(<<1, 0>>, <<2, 0>>, 1, <<".", "t">>),
      LlvmRow(<<4, 0>>, <<1, 0>>, 1, <<".", "d">>),
      LlvmRow(<<1, 0>>, <<8>>, 9, <<"a", ":", "(", "s", ")">>),
      LlvmRow(<<1, 0>>, <<0>>, 17, <<"f">>) }

BuildMsvcRowLines ==
    { MsvcRow(<<1>>, Hex2(16), <<"a">>),
      MsvcRow(<<1>>, Hex2(32), <<"a">>),
      MsvcRow(<<1>>, Hex2(64), <<"b">>),
      MsvcRow(<<0>>, Hex2(16), <<"a">>),
      MsvcRow(<<2>>, Hex2(16), <<"a">>),
      MsvcRow(<<3>>, Hex2(32), <<"b">>) }

BuildMapfiles ==
    SeqsUpTo(BuildGnuLines, MaxBuildLines)
    \cup { <<BannerLine(5)>> \o rows : rows \in SeqsUpTo(BuildLlvmLines, MaxBuildLines) }
    \cup { <<PreferredLine, StaticLine, BlankLine>> \o rows :
             rows \in SeqsUpTo(BuildMsvcRowLines, MaxBuildLines) }
    \cup { <<PreferredLine>> }

Init ==
    /\ mapfile \in BuildMapfiles
    /\ binary \in Binaries
    /\ overflow_checks \in BOOLEAN
    /\ pc = "new"
    /\ cursor = 0
    /\ st = <<>>
    /\ sections = <<>>
    /\ outcome = "running"
    /\ intervals = <<>>

\* line 74: let mut sections = extract_mapfile(mapfile)?
new_extract_mapfile ==
    /\ pc = "new"
    /\ LET r == ExtractMapfile(mapfile, overflow_checks)
       IN  /\ sections' = r.sections
           /\ pc' = IF r.tag = "ok" THEN "parse_binary" ELSE "done"
           /\ outcome' = CASE r.tag = "ok" -> outcome
                           [] r.tag = "err" -> "WrongMapfileFormat"
                           [] OTHER -> "panic"
    /\ UNCHANGED <<mapfile, binary, overflow_checks, cursor, st, intervals>>

\* lines 76-84: match Object::parse(binary)
new_parse_binary ==
    /\ pc = "parse_binary"
    /\ LET arm == ObjectArm(binary.kind)
       IN  IF arm = "UnsupportedBinaryFormat"
           THEN /\ pc' = "done"
                /\ outcome' = "UnsupportedBinaryFormat"
           ELSE /\ pc' = arm
                /\ outcome' = outcome
    /\ cursor' = 1
    /\ UNCHANGED <<mapfile, binary, overflow_checks, st, sections, intervals>>

\* lines 393-402: build elf_section_hm
map_sections_to_elf_names ==
    /\ pc = "map_sections_to_elf"
    /\ IF ElfNamesResolve(binary.table)
       THEN /\ pc' = "elf_for_each"
            /\ outcome' = outcome
       ELSE /\ pc' = "done"
            /\ outcome' = "panic"
    /\ UNCHANGED <<mapfile, binary, overflow_checks, cursor, st, sections, intervals>>

\* lines 404-412: the closure on the next section
map_sections_to_elf_section ==
    /\ pc = "elf_for_each"
    /\ cursor <= Len(sections)
    /\ LET r == MapSectionToElf(sections[cursor], binary.table, overflow_checks)
       IN  /\ sections' = [sections EXCEPT ![cursor] = r.section]
           /\ pc' = IF r.tag = "next" THEN pc ELSE "done"
           /\ cursor' = IF r.tag = "next" THEN cursor + 1 ELSE cursor
           /\ outcome' = IF r.tag = "next" THEN outcome ELSE "panic"
    /\ UNCHANGED <<mapfile, binary, overflow_checks, st, intervals>>

\* lines 368-381: the loop body on the next section
map_msvc_sections_to_pe_section ==
    /\ pc = "map_msvc_sections_to_pe"
    /\ cursor <= Len(sections)
    /\ LET r == MapSectionToPe(cursor - 1, sections[cursor], binary.table, overflow_checks)
       IN  /\ sections' = [sections EXCEPT ![cursor] = r.section]
           /\ pc' = IF r.tag = "next" THEN pc ELSE "done"
           /\ cursor' = IF r.tag = "next" THEN cursor + 1 ELSE cursor
           /\ outcome' = IF r.tag = "next" THEN outcome ELSE "panic"
    /\ UNCHANGED <<mapfile, binary, overflow_checks, st, intervals>>

\* lines 86-101: the reconciler has returned; build the interval tree
new_build_intervals ==
    /\ pc \in {"elf_for_each", "map_msvc_sections_to_pe"}
    /\ cursor > Len(sections)
    /\ LET subs == FlatSubsections(sections, 1)
       IN  IF overflow_checks /\ \E n \in 1..Len(subs) : IndexEntryOverflows(subs[n])
           THEN /\ intervals' = intervals
                /\ outcome' = "panic"
           ELSE /\ intervals' = CollectEntries(subs, 1)
                /\ outcome' = "ok"
    /\ pc' = "done"
    /\ UNCHANGED <<mapfile, binary, overflow_checks, cursor, st, sections>>

Next ==
    \/ new_extract_mapfile
    \/ new_parse_binary
    \/ map_sections_to_elf_names
    \/ map_sections_to_elf_section
    \/ map_msvc_sections_to_pe_section
    \/ new_build_intervals

Spec == Init /\ [][Next]_vars

----------------------------------------------------------------------------
(* Claims about extract_msvc_mapfile (SpecMsvc) *)

\* the lines the loop reads: from the second line after the anchor up to
\* the first line the row regex does not match
RECURSIVE RowsFrom(_, _)
RowsFrom(text, i) ==
    IF i > Len(text) \/ text[i].t # "mrow" THEN <<>>
    ELSE <<text[i]>> \o RowsFrom(text, i + 1)

RowsRead(text) ==
    IF IsSome(FindStatic(text)) THEN RowsFrom(text, MsvcFirstRow(text)) ELSE <<>>

RowsWellFormed(rows) ==
    \A k \in 1..Len(rows) :
        IsSome(from_str_radix(rows[k].section))
        /\ IsSome(from_str_radix(rows[k].section_offset))

RowNb(row) == Unwrap(from_str_radix(row.section))
RowOff(row) == Unwrap(from_str_radix(row.section_offset))
RowFile(row) == OriginFile(row.origin)

\* k is the first row of a maximal run of rows with the same origin
\* filename and section number
RunStartsAt(rows, k) ==
    k = 1 \/ RowFile(rows[k - 1]) # RowFile(rows[k]) \/ RowNb(rows[k - 1]) # RowNb(rows[k])

\* the last row of the maximal run that starts at row k
RECURSIVE RunEnd(_, _)
RunEnd(rows, k) ==
    IF k < Len(rows) /\ ~RunStartsAt(rows, k + 1) THEN RunEnd(rows, k + 1) ELSE k

\* the SubSections the maximal runs of section number nb should yield, in order
RECURSIVE RunsOfSection(_, _, _)
RunsOfSection(rows, nb, k) ==
    IF k > Len(rows) THEN <<>>
    ELSE IF RunStartsAt(rows, k) /\ RowNb(rows[k]) = nb
    THEN <<[name |-> <<>>, start_vaddr |-> RowOff(rows[k]), start_file_offset |-> None,
            size |-> RowOff(rows[RunEnd(rows, k)]) - RowOff(rows[k]) + 1,
            filename |-> RowFile(rows[k])]>>
         \o RunsOfSection(rows, nb, k + 1)
    ELSE RunsOfSection(rows, nb, k + 1)

SubsectionsAt(secs, nb) ==
    IF nb + 1 <= Len(secs) THEN secs[nb + 1].subsections ELSE <<>>

MsvcReturnedOk == pc = "done" /\ outcome = "ok"

\* C2: when the MSVC parser returns, the Section at each index holds exactly
\* one SubSection per maximal run of rows with that section number and one
\* origin filename, the first run of the listing included, with start_vaddr
\* the run's first offset and size = last offset - first offset + 1.
C2_EveryRunYieldsItsSubsection ==
    (MsvcReturnedOk /\ RowsWellFormed(RowsRead(mapfile))) =>
        \A nb \in 0..2 :
            SubsectionsAt(sections, nb) = RunsOfSection(RowsRead(mapfile), nb, 1)

\* the offsets of the rows of each section never decrease
RowsMonotonic(rows) ==
    \A j, k \in 1..Len(rows) :
        (j < k /\ RowNb(rows[j]) = RowNb(rows[k])) => RowOff(rows[j]) <= RowOff(rows[k])

\* C10: on rows whose offsets never decrease within a section, the size
\* subtraction never underflows (no overflow panic, no wrapped size) and
\* every SubSection pushed has 1 <= size <= last offset read + 1.
C10_MonotonicRowsNeverUnderflow ==
    (RowsWellFormed(RowsRead(mapfile)) /\ RowsMonotonic(RowsRead(mapfile))) =>
        /\ outcome # "panic"
        /\ \A i \in 1..Len(st.res) : \A j \in 1..Len(st.res[i].subsections) :
              /\ st.res[i].subsections[j].size >= 1
              /\ st.res[i].subsections[j].size <= st.prev_section_offset + 1

----------------------------------------------------------------------------
(* Claims about the GNU and LLVM parsers (SpecParse) *)

\* C5: the GNU and LLVM parsers never fail, whatever the text: no error is
\* returned and nothing panics; a line without the full expected shape is
\* skipped.
C5_GnuLlvmParsersNeverFail ==
    Dialect(mapfile) \in {"GNU", "LLVM"} =>
        outcome \notin {"panic", "WrongMapfileFormat", "UnsupportedBinaryFormat"}

\* the lines of the text that are subsection matches already captured
RECURSIVE CapturedSubs(_, _, _)
CapturedSubs(text, upto, j) ==
    IF j > upto \/ j > Len(text) THEN <<>>
    ELSE IF text[j].t = "gsub" THEN <<j>> \o CapturedSubs(text, upto, j + 1)
    ELSE CapturedSubs(text, upto, j + 1)

\* the section lines of the text, in order
RECURSIVE SectionLinesOf(_, _)
SectionLinesOf(text, j) ==
    IF j > Len(text) THEN <<>>
    ELSE IF text[j].t = "gsec" THEN <<j>> \o SectionLinesOf(text, j + 1)
    ELSE SectionLinesOf(text, j + 1)

\* section line i is the one with the greatest match offset strictly less
\* than that of subsection line j
OwnsSubsection(text, i, j) ==
    /\ MatchStart(text, i) < MatchStart(text, j)
    /\ \A k \in 1..Len(text) :
          (text[k].t = "gsec" /\ MatchStart(text, k) < MatchStart(text, j))
              => MatchStart(text, k) <= MatchStart(text, i)

\* the subsections section line i should hold: those of the captured
\* subsection lines it owns, in the order of the text
RECURSIVE OwnedSubs(_, _, _, _)
OwnedSubs(text, i, subs, n) ==
    IF n > Len(subs) THEN <<>>
    ELSE IF OwnsSubsection(text, i, subs[n])
    THEN <<[name |-> text[subs[n]].name, file |-> text[subs[n]].file]>>
         \o OwnedSubs(text, i, subs, n + 1)
    ELSE OwnedSubs(text, i, subs, n + 1)

NamesAndFiles(subsections) ==
    [n \in 1..Len(subsections) |->
        [name |-> subsections[n].name, file |-> subsections[n].filename]]

GnuAttaching ==
    \/ pc = "gnu_subsections"
    \/ pc = "done" /\ outcome = "ok" /\ Dialect(mapfile) = "GNU"

\* C6: in the GNU parser every subsection match captured so far sits in
\* exactly one Section, the one whose match offset is the greatest section
\* match offset strictly less than its own; one that precedes every section
\* match sits nowhere; each Section keeps its subsections in text order.
C6_SubsectionGoesToClosestPrecedingSection ==
    GnuAttaching =>
        LET secs == SectionLinesOf(mapfile, 1)
            subs == CapturedSubs(mapfile, cursor, 1)
        IN  /\ Len(st.sections) = Len(secs)
            /\ \A k \in 1..Len(secs) :
                  NamesAndFiles(st.sections[k].subsections)
                      = OwnedSubs(mapfile, secs[k], subs, 1)

\* the parser returned with a subsection dropped in front of the first
\* section and two subsections, in text order, in one section
C6_Witness ==
    /\ pc = "done" /\ outcome = "ok" /\ Dialect(mapfile) = "GNU"
    /\ Len(mapfile) >= 1 /\ mapfile[1].t = "gsub"
    /\ \E k \in 1..Len(sections) :
          /\ Len(sections[k].subsections) = 2
          /\ sections[k].subsections[1].name # sections[k].subsections[2].name

IsSectionRow(line) == line.t = "lrow" /\ line.spaces = 1
IsSubSectionRow(line, gap) == line.t = "lrow" /\ line.spaces = 1 + 3 + gap

\* the Sections the rows from line j on should give, cur being the open one
RECURSIVE RowsToSections(_, _, _, _, _)
RowsToSections(text, gap, j, done, cur) ==
    IF j > Len(text) THEN Append(done, cur)
    ELSE IF IsSectionRow(text[j])
    THEN RowsToSections(text, gap, j + 1, Append(done, cur),
                        [name |-> text[j].name, subs |-> 0])
    ELSE IF IsSubSectionRow(text[j], gap)
    THEN RowsToSections(text, gap, j + 1, done, [cur EXCEPT !.subs = @ + 1])
    ELSE RowsToSections(text, gap, j + 1, done, cur)

\* what the lines after the banner should give
AfterBanner(text) ==
    LET b == FindKind(text, "banner", 1)
    IN  IF b + 1 > Len(text) \/ ~IsSectionRow(text[b + 1]) THEN <<>>
        ELSE RowsToSections(text, text[b].gap, b + 2, <<>>,
                            [name |-> text[b + 1].name, subs |-> 0])

NamesAndCounts(secs) ==
    [k \in 1..Len(secs) |-> [name |-> secs[k].name, subs |-> Len(secs[k].subsections)]]

\* C9: the LLVM parser scans the lines after the banner, wherever the
\* banner is: the result is empty if the first of them is no Section row,
\* and else lists the Section rows in order, each with the SubSection rows
\* that follow it, the last open Section included.
C9_LlvmScansLinesAfterBanner ==
    (pc = "done" /\ outcome = "ok" /\ Dialect(mapfile) = "LLVM") =>
        NamesAndCounts(sections) = AfterBanner(mapfile)

----------------------------------------------------------------------------
(* Claims about Genealogy::new and the reconcilers (Spec) *)

MapfileParsed == ExtractMapfile(mapfile, overflow_checks).tag = "ok"

MatchingPair ==
    \/ Dialect(mapfile) \in {"GNU", "LLVM"} /\ binary.kind = "ELF"
    \/ Dialect(mapfile) = "MSVC" /\ binary.kind = "PE"

\* C1: once the mapfile is parsed, every (dialect, binary kind)
\* pair other than (GNU or LLVM, ELF) and (MSVC, PE) makes Genealogy::new
\* return UnsupportedBinaryFormat.
C1_OnlyMatchingPairsAccepted ==
    (pc = "done" /\ MapfileParsed /\ ~MatchingPair)
        => outcome = "UnsupportedBinaryFormat"

HasOffset(sub) == IsSome(sub.start_file_offset)
HasOffsetAndSize(sub) == IsSome(sub.start_file_offset) /\ sub.size > 0

IntervalOf(sub) ==
    [start |-> Unwrap(sub.start_file_offset),
     end |-> (Unwrap(sub.start_file_offset) + sub.size) % Modulus,
     value |-> sub.filename]

IntervalsOf(subs) == [n \in 1..Len(subs) |-> IntervalOf(subs[n])]

Built == pc = "done" /\ outcome = "ok"

HeaderFound(table, name) ==
    \E i \in 1..Len(table) : table[i].name = Some(name)

HeaderOf(table, name) ==
    table[CHOOSE i \in 1..Len(table) :
            /\ table[i].name = Some(name)
            /\ \A j \in (i + 1)..Len(table) : table[j].name # Some(name)]

InElfReconciler ==
    /\ binary.kind = "ELF"
    /\ pc \in {"elf_for_each", "done"}
    /\ ElfNamesResolve(binary.table)
    /\ MapfileParsed

\* the sections the reconciler's closure has returned from
Reconciled == 1..(IF cursor - 1 < Len(sections) THEN cursor - 1 ELSE Len(sections))

\* C4: after ELF reconciliation every subsection of a Section found in the
\* ELF section header table has its interval within [sh_offset, sh_offset +
\* sh_size) of that ELF section, whatever the mapfile says, and the
\* reconciler does not abort.
C4_SubsectionsLieWithinTheirElfSection ==
    (InElfReconciler /\ Dialect(mapfile) # "MSVC") =>
        /\ ~(outcome = "panic" /\ cursor <= Len(sections))
        /\ \A i \in Reconciled :
              HeaderFound(binary.table, sections[i].name) =>
                  \A n \in 1..Len(sections[i].subsections) :
                      LET sub == sections[i].subsections[n]
                          hdr == HeaderOf(binary.table, sections[i].name)
                      IN  /\ IsSome(sub.start_file_offset)
                          /\ hdr.sh_offset <= Unwrap(sub.start_file_offset)
                          /\ Unwrap(sub.start_file_offset) + sub.size
                                <= hdr.sh_offset + hdr.sh_size

\* C7: for every Section the ELF reconciler has handled: if its name is in
\* the section header table, start_file_offset = sh_offset and every
\* subsection has start_file_offset = sh_offset + (subsection.start_vaddr -
\* section.start_vaddr) in 64-bit arithmetic; if not, the Section and its
\* subsections have no start_file_offset.  The index built afterwards holds
\* exactly the subsections of the Sections found.
C7_ElfOffsetIsSectionOffsetPlusDisplacement ==
    InElfReconciler =>
        /\ \A i \in Reconciled :
              LET sec == sections[i]
              IN  IF HeaderFound(binary.table, sec.name)
                  THEN LET sh_offset == HeaderOf(binary.table, sec.name).sh_offset
                       IN  /\ sec.start_file_offset = Some(sh_offset)
                           /\ \A n \in 1..Len(sec.subsections) :
                                 sec.subsections[n].start_file_offset
                                   = Some((sh_offset
                                           + (sec.subsections[n].start_vaddr - sec.start_vaddr)
                                           + Modulus) % Modulus)
                  ELSE /\ sec.start_file_offset = None
                       /\ \A n \in 1..Len(sec.subsections) :
                             sec.subsections[n].start_file_offset = None
        /\ Built =>
              Len(intervals) =
                 Len(FlatSubsections(
                        SelectSeq(sections, LAMBDA sec : HeaderFound(binary.table, sec.name)), 1))

\* the index was built from a Section found in the table, with a subsection
\* that starts after the Section does, and a Section that was not found
C7_Witness ==
    /\ Built /\ binary.kind = "ELF" /\ Dialect(mapfile) = "GNU"
    /\ \E i \in 1..Len(sections) :
          /\ HeaderFound(binary.table, sections[i].name)
          /\ \E n \in 1..Len(sections[i].subsections) :
                sections[i].subsections[n].start_vaddr > sections[i].start_vaddr
    /\ \E i \in 1..Len(sections) : ~HeaderFound(binary.table, sections[i].name)

InPeReconciler ==
    /\ binary.kind = "PE"
    /\ pc \in {"map_msvc_sections_to_pe", "done"}
    /\ MapfileParsed

\* C8: for every Section the PE reconciler has handled, at index i counted
\* from 0: if i >= 1 and PE section i - 1 exists, every subsection has
\* start_file_offset = pointer_to_raw_data + start_vaddr; else (index 0, or
\* no such PE section) none of its subsections has one.  The index built
\* afterwards holds exactly the subsections of the former.
C8_PeOffsetIsRawPointerPlusSectionOffset ==
    InPeReconciler =>
        /\ \A k \in Reconciled :
              LET sec == sections[k]
                  i == k - 1
              IN  \A n \in 1..Len(sec.subsections) :
                     sec.subsections[n].start_file_offset =
                        IF i >= 1 /\ i <= Len(binary.table)
                        THEN Some((binary.table[i].pointer_to_raw_data
                                   + sec.subsections[n].start_vaddr) % Modulus)
                        ELSE None
        /\ Built =>
              Len(intervals) =
                 Len(FlatSubsections(
                        SubSeq(sections, 2,
                               IF Len(sections) <= Len(binary.table) + 1
                               THEN Len(sections) ELSE Len(binary.table) + 1), 1))

\* an MSVC mapfile and a PE binary gave an index although the sentinel
\* Section 0 and a Section without a PE section hold subsections
C8_Witness ==
    /\ Built /\ binary.kind = "PE" /\ Dialect(mapfile) = "MSVC"
    /\ Len(sections) > Len(binary.table) + 1
    /\ Len(sections[1].subsections) > 0
    /\ Len(sections[Len(sections)].subsections) > 0
    /\ Len(intervals) > 0

====
